---- MODULE Spec2Model ----
(***************************************************************************)
(* merge_files.py: merge per-session summary and problem PDFs into one     *)
(* document, dropping the last page of every source document and padding   *)
(* every session to an even number of pages with a generated filler page.  *)
(*                                                                         *)
(* File names and session ids are sequences of one-character strings, so   *)
(* that the regular expression, str.split, int() and the sort key are      *)
(* computed character by character as the program computes them.           *)
(***************************************************************************)
EXTENDS Integers, Sequences, FiniteSets, TLC

\* ------------------------------------------------------------------ bounds
MaxFiles == 3
MaxPages == 3

\* --------------------------------------------------------------- optionals
None == <<>>
Some(v) == <<v>>

\* -------------------------------------------------------------- characters
Digits == {"0", "1", "2", "3", "4", "5", "6", "7", "8", "9"}

DigitVal(c) ==
    CASE c = "0" -> 0 [] c = "1" -> 1 [] c = "2" -> 2 [] c = "3" -> 3
      [] c = "4" -> 4 [] c = "5" -> 5 [] c = "6" -> 6 [] c = "7" -> 7
      [] c = "8" -> 8 [] c = "9" -> 9

\* str.lower() / re.IGNORECASE folding on the characters file names use
Lower(c) ==
    CASE c = "S" -> "s" [] c = "E" -> "e" [] c = "U" -> "u" [] c = "M" -> "m"
      [] c = "P" -> "p" [] c = "R" -> "r" [] c = "O" -> "o" [] c = "B" -> "b"
      [] c = "D" -> "d" [] c = "F" -> "f" [] c = "X" -> "x" [] c = "A" -> "a"
      [] c = "K" -> "k"
      [] OTHER -> c

LowerStr(s) == [i \in 1..Len(s) |-> Lower(s[i])]

\* ord(c): code points, for comparing strings
CharCode(c) ==
    CASE c = "." -> 46
      [] c \in Digits -> 48 + DigitVal(c)
      [] c = "A" -> 65 [] c = "B" -> 66 [] c = "D" -> 68 [] c = "E" -> 69
      [] c = "F" -> 70 [] c = "K" -> 75 [] c = "M" -> 77 [] c = "O" -> 79
      [] c = "P" -> 80 [] c = "R" -> 82 [] c = "S" -> 83 [] c = "U" -> 85
      [] c = "X" -> 88
      [] c = "a" -> 97 [] c = "b" -> 98 [] c = "d" -> 100 [] c = "e" -> 101
      [] c = "f" -> 102 [] c = "k" -> 107 [] c = "m" -> 109 [] c = "o" -> 111
      [] c = "p" -> 112 [] c = "r" -> 114 [] c = "s" -> 115 [] c = "u" -> 117
      [] c = "x" -> 120

\* ------------------------------------------------------- directory entries
NameSes1_2sum == <<"S", "e", "s", "1", ".", "2", "s", "u", "m", ".", "p", "d", "f">>
NameSes1_2prob == <<"S", "e", "s", "1", ".", "2", "p", "r", "o", "b", ".", "p", "d", "f">>
NameSes1_10sum == <<"S", "e", "s", "1", ".", "1", "0", "s", "u", "m", ".", "p", "d", "f">>
NameSes1_10prob == <<"S", "e", "s", "1", ".", "1", "0", "p", "r", "o", "b", ".", "p", "d", "f">>
NameUpperSes1_9sum == <<"S", "E", "S", "1", ".", "9", "S", "U", "M", ".", "P", "D", "F">>
NameBakSes1_9sum == <<"S", "e", "s", "1", ".", "9", "s", "u", "m", ".", "p", "d", "f", ".", "b", "a", "k">>
NamePrefixedSes1_10sum == <<"x", "S", "e", "s", "1", ".", "1", "0", "s", "u", "m", ".", "p", "d", "f">>
NameNoDotSes1x2sum == <<"S", "e", "s", "1", "x", "2", "s", "u", "m", ".", "p", "d", "f">>

\* the entries lecturenotes/ may hold: summaries, and names near the pattern
LectureNames ==
    { NameSes1_2sum, NameSes1_10sum, NameUpperSes1_9sum, NameBakSes1_9sum,
      NamePrefixedSes1_10sum, NameNoDotSes1x2sum }

\* the entries problemsets/ may hold: problem sets, and one stray summary
ProblemNames == { NameSes1_2prob, NameSes1_10prob, NameSes1_2sum }

NameUniverse == LectureNames \cup ProblemNames

FolderNames(dir) == IF dir = "lecturenotes" THEN LectureNames ELSE ProblemNames

Folders == {"lecturenotes", "problemsets"}

\* ------------------------------------------------------------------- pages
A4 == <<595, 842>>
Letter == <<612, 792>>
PageSizes == {A4, Letter}

\* what PdfReader(path) yields: the page count and the first page's mediabox
Docs ==
    {[n |-> 0, box |-> None]}
      \cup {[n |-> k, box |-> Some(b)] : k \in 1..MaxPages, b \in PageSizes}

SrcPage(path, i) == [kind |-> "src", of |-> path, idx |-> i]

\* the page create_dot_page returns: one page of the given size with a dot
create_dot_page(width_pts, height_pts) ==
    [kind |-> "filler", of |-> <<width_pts, height_pts>>, idx |-> 0]

\* os.path.join(folder, f)
JoinPath(dir, name) == <<dir, name>>

\* ----------------------------------------------------- the pattern matcher
\* first position at or after pos that holds no digit: the greedy \d+
DigitRunEnd(s, pos) ==
    CHOOSE e \in pos..(Len(s) + 1) :
        /\ \A k \in pos..(e - 1) : s[k] \in Digits
        /\ e <= Len(s) => s[e] \notin Digits

\* the two kinds, as the strings the dicts are keyed by
SUM == <<"s", "u", "m">>
PROB == <<"p", "r", "o", "b">>

\* a literal of the pattern at position pos, under re.IGNORECASE
LitAt(s, pos, lit) ==
    /\ pos + Len(lit) - 1 <= Len(s)
    /\ \A i \in 1..Len(lit) : Lower(s[pos + i - 1]) = lit[i]

\* pattern.match(f): the match is anchored at the start of f only
PatternMatch(f) ==
    LET d1 == DigitRunEnd(f, 4)
        d2 == DigitRunEnd(f, d1 + 1)
        klen == IF LitAt(f, d2, SUM) THEN 3
                ELSE IF LitAt(f, d2, PROB) THEN 4
                ELSE 0
    IN  IF /\ LitAt(f, 1, <<"s", "e", "s">>)
           /\ d1 > 4
           /\ LitAt(f, d1, <<".">>)
           /\ d2 > d1 + 1
           /\ klen > 0
           /\ LitAt(f, d2 + klen, <<".", "p", "d", "f">>)
        THEN Some([sesnum |-> SubSeq(f, 4, d2 - 1),
                   kind |-> SubSeq(f, d2, d2 + klen - 1)])
        ELSE None

\* ------------------------------------------------------------------- dicts
\* a dict keeps its keys in insertion order
EmptyDict == [keys |-> <<>>, val |-> <<>>]

DictGet(d, k, default) == IF k \in DOMAIN d.val THEN d.val[k] ELSE default

DictSet(d, k, v) ==
    IF k \in DOMAIN d.val
    THEN [d EXCEPT !.val = (k :> v) @@ d.val]
    ELSE [keys |-> Append(d.keys, k), val |-> (k :> v) @@ d.val]

\* sessions.setdefault(sesnum, {}).update(entry), for every item of src in order
RECURSIVE UpdateAll(_, _, _)
UpdateAll(d, src, i) ==
    IF i > Len(src.keys) THEN d
    ELSE LET k == src.keys[i]
         IN  UpdateAll(DictSet(d, k, src.val[k] @@ DictGet(d, k, <<>>)), src, i + 1)

\* ------------------------------------------------------------ the sort key
RECURSIVE Split(_, _)
\* s.split(sep)
Split(s, sep) ==
    IF \E i \in 1..Len(s) : s[i] = sep
    THEN LET i == CHOOSE j \in 1..Len(s) :
                      s[j] = sep /\ \A k \in 1..(j - 1) : s[k] # sep
         IN  <<SubSeq(s, 1, i - 1)>> \o Split(SubSeq(s, i + 1, Len(s)), sep)
    ELSE <<s>>

RECURSIVE IntOf(_)
\* int(x) of a string of decimal digits
IntOf(x) ==
    IF Len(x) = 1 THEN DigitVal(x[1])
    ELSE 10 * IntOf(SubSeq(x, 1, Len(x) - 1)) + DigitVal(x[Len(x)])

\* sorting without the key: the session ids compared as strings
SortKeyAsString(s) == [i \in 1..Len(s) |-> CharCode(s[i])]

\* key=lambda s: [int(x) for x in s.split(".")]
SortKey(s) ==
    LET parts == Split(s, ".") IN [i \in 1..Len(parts) |-> IntOf(parts[i])]

RECURSIVE ListLess(_, _)
\* a < b for two lists of integers, as Python compares lists
ListLess(a, b) ==
    IF Len(a) = 0 THEN Len(b) > 0
    ELSE IF Len(b) = 0 THEN FALSE
    ELSE IF a[1] # b[1] THEN a[1] < b[1]
    ELSE ListLess(Tail(a), Tail(b))

\* how many keys sorted() puts at or before keys[j]: those with a smaller
\* sort key, and those with an equal one that come no later (the sort is stable)
RankOf(keys, j) ==
    Cardinality({k \in 1..Len(keys) :
        \/ ListLess(SortKey(keys[k]), SortKey(keys[j]))
        \/ /\ ~ListLess(SortKey(keys[j]), SortKey(keys[k]))
           /\ k <= j})

\* sorted(keys, key=...)
SortedKeys(keys) ==
    [i \in 1..Len(keys) |-> keys[CHOOSE j \in 1..Len(keys) : RankOf(keys, j) = i]]

\* ------------------------------------------------------------------- state
VARIABLES
    dirs,              \* the two input folders: whether each exists, and its entries
    pc,                \* the statement the script is at
    folder,            \* collect_files_from: the argument
    listing,           \* collect_files_from: entries os.listdir has yet to yield
    mapping,           \* collect_files_from: the dict being built
    f,                 \* collect_files_from: the entry of the current iteration
    m,                 \* collect_files_from: the match object, or None
    sum_files,
    prob_files,
    sessions,
    out,               \* None before PdfWriter() is called, then Some(pages)
    todo,              \* the rest of the sorted list the for loop walks
    ses,
    page_width,
    page_height,
    start_page_count,
    r,                 \* the PdfReader last constructed
    opened,            \* every PdfReader constructed so far, by path
    merged,            \* merged.pdf: None until written, then Some(pages)
    status             \* the exit status: None while the script runs

vars == <<dirs, pc, folder, listing, mapping, f, m, sum_files, prob_files,
          sessions, out, todo, ses, page_width, page_height, start_page_count,
          r, opened, merged, status>>

collectVars == <<folder, listing, mapping, f, m, sum_files, prob_files>>
loopVars == <<todo, ses, page_width, page_height, start_page_count>>

DirStates(dir) ==
    {[isdir |-> FALSE, names |-> {}]}
      \cup {[isdir |-> TRUE, names |-> s] : s \in SUBSET FolderNames(dir)}

Init ==
    /\ dirs \in [Folders -> UNION {DirStates(d) : d \in Folders}]
    /\ \A d \in Folders : dirs[d] \in DirStates(d)
    /\ Cardinality(dirs["lecturenotes"].names)
         + Cardinality(dirs["problemsets"].names) <= MaxFiles
    /\ pc = "call"
    /\ folder = "lecturenotes"
    /\ listing = {}
    /\ mapping = EmptyDict
    /\ f = None
    /\ m = None
    /\ sum_files = EmptyDict
    /\ prob_files = EmptyDict
    /\ sessions = EmptyDict
    /\ out = None
    /\ todo = <<>>
    /\ ses = None
    /\ page_width = None
    /\ page_height = None
    /\ start_page_count = 0
    /\ r = None
    /\ opened = <<>>
    /\ merged = None
    /\ status = None

\* --------------------------------------------------- collect_files_from
\* lines 66-68: mapping = {}; a folder that is no directory yields it at once
EnterCollect ==
    /\ pc = "call"
    /\ mapping' = EmptyDict
    /\ IF dirs[folder].isdir
       THEN /\ listing' = dirs[folder].names
            /\ pc' = "scan"
       ELSE /\ listing' = {}
            /\ pc' = "return"
    /\ UNCHANGED <<dirs, folder, f, m, sum_files, prob_files, sessions, out,
                   loopVars, r, opened, merged, status>>

\* lines 69-75: one iteration of the loop over os.listdir(folder), which
\* yields the entries in an arbitrary order
ScanFile ==
    /\ pc = "scan"
    /\ \E name \in listing : \E mm \in {PatternMatch(name)} :
          /\ listing' = listing \ {name}
          /\ f' = name
          /\ m' = mm
          /\ IF mm = None
             THEN mapping' = mapping
             ELSE LET sesnum == mm[1].sesnum
                      kind == LowerStr(mm[1].kind)
                      entry == DictGet(mapping, sesnum, <<>>)
                  IN  mapping' = DictSet(mapping, sesnum,
                                    (kind :> JoinPath(folder, name)) @@ entry)
    /\ UNCHANGED <<dirs, pc, folder, sum_files, prob_files, sessions, out,
                   loopVars, r, opened, merged, status>>

\* the loop is over: line 76, return mapping
EndScan ==
    /\ pc = "scan"
    /\ listing = {}
    /\ pc' = "return"
    /\ UNCHANGED <<dirs, collectVars, sessions, out, loopVars, r, opened,
                   merged, status>>

\* lines 81-82: the value returned is bound to sum_files, then to prob_files
ReturnCollect ==
    /\ pc = "return"
    /\ IF folder = "lecturenotes"
       THEN /\ sum_files' = mapping
            /\ prob_files' = prob_files
            /\ folder' = "problemsets"
            /\ pc' = "call"
       ELSE /\ prob_files' = mapping
            /\ sum_files' = sum_files
            /\ folder' = folder
            /\ pc' = "combine"
    /\ UNCHANGED <<dirs, listing, mapping, f, m, sessions, out, loopVars, r,
                   opened, merged, status>>

\* ------------------------------------------------- combining the mappings
\* lines 80-88
Combine ==
    /\ pc = "combine"
    /\ sessions' = UpdateAll(UpdateAll(EmptyDict, sum_files, 1), prob_files, 1)
    /\ pc' = "check"
    /\ UNCHANGED <<dirs, collectVars, out, loopVars, r, opened, merged, status>>

\* the exit taken when no summary was found, whatever problemsets/ holds
ExitEmptyNoSummaries ==
    /\ pc = "check"
    /\ sum_files.keys = <<>>
    /\ status' = Some(1)
    /\ pc' = "exit"
    /\ UNCHANGED <<dirs, collectVars, sessions, out, loopVars, r, opened, merged>>

\* lines 90-92: raise SystemExit(1)
ExitEmpty ==
    /\ pc = "check"
    /\ sessions.keys = <<>>
    /\ status' = Some(1)
    /\ pc' = "exit"
    /\ UNCHANGED <<dirs, collectVars, sessions, out, loopVars, r, opened, merged>>

\* lines 97-99: out = PdfWriter(); the sorted list the loop walks
StartMerge ==
    /\ pc = "check"
    /\ sessions.keys # <<>>
    /\ out' = Some(<<>>)
    /\ todo' = SortedKeys(sessions.keys)
    /\ pc' = "loop"
    /\ UNCHANGED <<dirs, collectVars, sessions, ses, page_width, page_height,
                   start_page_count, r, opened, merged, status>>

\* ------------------------------------------------------------ the merge loop
pair == sessions.val[ses]

\* range(len(r.pages)): the last page is copied too
AllPagesOf(path, doc) == [i \in 1..doc.n |-> SrcPage(path, i - 1)]

\* lines 120-121 and 137-138: for i in range(max(0, len(r.pages) - 1))
CopiedPages(path, doc) ==
    [i \in 1..(IF doc.n - 1 > 0 THEN doc.n - 1 ELSE 0) |-> SrcPage(path, i - 1)]

\* the next session, with the reference size of the previous one kept
LoopHeadNoReset ==
    /\ pc = "loop"
    /\ todo # <<>>
    /\ ses' = Head(todo)
    /\ todo' = Tail(todo)
    /\ start_page_count' = Len(out[1])
    /\ pc' = "sum"
    /\ UNCHANGED <<dirs, collectVars, sessions, out, page_width, page_height,
                   r, opened, merged, status>>

\* lines 99-105: the next session; the reference size starts unset
LoopHead ==
    /\ pc = "loop"
    /\ todo # <<>>
    /\ ses' = Head(todo)
    /\ todo' = Tail(todo)
    /\ page_width' = None
    /\ page_height' = None
    /\ start_page_count' = Len(out[1])
    /\ pc' = "sum"
    /\ UNCHANGED <<dirs, collectVars, sessions, out, r, opened, merged, status>>

\* lines 108-121: the summary is read and copied without its last page
IncludeSum ==
    /\ pc = "sum"
    /\ SUM \in DOMAIN pair
    /\ \E doc \in Docs :
          LET sum_file == pair[SUM] IN
          /\ r' = Some(doc)
          /\ opened' = (sum_file :> doc) @@ opened
          /\ IF doc.n > 0
             THEN /\ page_width' = Some(doc.box[1][1])
                  /\ page_height' = Some(doc.box[1][2])
             ELSE UNCHANGED <<page_width, page_height>>
          /\ out' = Some(out[1] \o CopiedPages(sum_file, doc))
    /\ pc' = "prob"
    /\ UNCHANGED <<dirs, collectVars, sessions, todo, ses, start_page_count,
                   merged, status>>

\* line 111: PdfReader(sum_file) raises; nothing catches it
SumUnreadable ==
    /\ pc = "sum"
    /\ SUM \in DOMAIN pair
    /\ status' = Some(1)
    /\ pc' = "crashed"
    /\ UNCHANGED <<dirs, collectVars, sessions, out, loopVars, r, opened, merged>>

\* no summary, and the session is not skipped: the problem step follows
SkipSessionToProb ==
    /\ pc = "sum"
    /\ SUM \notin DOMAIN pair
    /\ pc' = "prob"
    /\ UNCHANGED <<dirs, collectVars, sessions, out, loopVars, r, opened,
                   merged, status>>

\* lines 122-124: no summary: continue
SkipSession ==
    /\ pc = "sum"
    /\ SUM \notin DOMAIN pair
    /\ pc' = "loop"
    /\ UNCHANGED <<dirs, collectVars, sessions, out, loopVars, r, opened,
                   merged, status>>

\* lines 127-138: the problem document is read and copied without its last page
IncludeProb ==
    /\ pc = "prob"
    /\ PROB \in DOMAIN pair
    /\ \E doc \in Docs :
          LET prob_file == pair[PROB] IN
          /\ r' = Some(doc)
          /\ opened' = (prob_file :> doc) @@ opened
          /\ IF page_width = None /\ doc.n > 0
             THEN /\ page_width' = Some(doc.box[1][1])
                  /\ page_height' = Some(doc.box[1][2])
             ELSE UNCHANGED <<page_width, page_height>>
          /\ out' = Some(out[1] \o CopiedPages(prob_file, doc))
    /\ pc' = "pad"
    /\ UNCHANGED <<dirs, collectVars, sessions, todo, ses, start_page_count,
                   merged, status>>

\* PdfReader(prob_file) raises, and what was merged so far is saved
ProbUnreadableSavesPartial ==
    /\ pc = "prob"
    /\ PROB \in DOMAIN pair
    /\ status' = Some(1)
    /\ merged' = out
    /\ pc' = "crashed"
    /\ UNCHANGED <<dirs, collectVars, sessions, out, loopVars, r, opened>>

\* line 130: PdfReader(prob_file) raises; nothing catches it
ProbUnreadable ==
    /\ pc = "prob"
    /\ PROB \in DOMAIN pair
    /\ status' = Some(1)
    /\ pc' = "crashed"
    /\ UNCHANGED <<dirs, collectVars, sessions, out, loopVars, r, opened, merged>>

\* lines 139-140: no problem document, only a warning
ProbMissing ==
    /\ pc = "prob"
    /\ PROB \notin DOMAIN pair
    /\ pc' = "pad"
    /\ UNCHANGED <<dirs, collectVars, sessions, out, loopVars, r, opened,
                   merged, status>>

\* line 143
pages_added == Len(out[1]) - start_page_count

\* no padding at all
PadNever ==
    /\ pc = "pad"
    /\ pc' = "loop"
    /\ UNCHANGED <<dirs, collectVars, sessions, out, loopVars, r, opened,
                   merged, status>>

\* lines 142-149: an odd number of pages for this session gets one filler page
Pad ==
    /\ pc = "pad"
    /\ IF pages_added % 2 # 0
       THEN LET fallback == page_width = None \/ page_height = None
                w == IF fallback THEN Some(A4[1]) ELSE page_width
                h == IF fallback THEN Some(A4[2]) ELSE page_height
            IN  /\ page_width' = w
                /\ page_height' = h
                /\ out' = Some(Append(out[1], create_dot_page(w[1], h[1])))
       ELSE UNCHANGED <<page_width, page_height, out>>
    /\ pc' = "loop"
    /\ UNCHANGED <<dirs, collectVars, sessions, todo, ses, start_page_count,
                   r, opened, merged, status>>

\* lines 154-158: every session was walked; merged.pdf is written
WriteOutput ==
    /\ pc = "loop"
    /\ todo = <<>>
    /\ merged' = out
    /\ status' = Some(0)
    /\ pc' = "done"
    /\ UNCHANGED <<dirs, collectVars, sessions, out, loopVars, r, opened>>

Next ==
    \/ EnterCollect
    \/ ScanFile
    \/ EndScan
    \/ ReturnCollect
    \/ Combine
    \/ ExitEmpty
    \/ StartMerge
    \/ LoopHead
    \/ IncludeSum
    \/ SumUnreadable
    \/ SkipSession
    \/ IncludeProb
    \/ ProbUnreadable
    \/ ProbMissing
    \/ Pad
    \/ WriteOutput

Spec == Init /\ [][Next]_vars

\* ------------------------------------------------- vocabulary of the claims
Pages == IF out = None THEN <<>> ELSE out[1]

\* the pages appended since the current session began
Seg == SubSeq(Pages, start_page_count + 1, Len(Pages))

\* the loop has finished its iteration for session ses
IterationEnd == pc = "loop" /\ ses # None

Max0(x) == IF x > 0 THEN x ELSE 0

IsSrc(p, path, i) == p.kind = "src" /\ p.of = path /\ p.idx = i

IsFiller(p) == p.kind = "filler"

SrcCount(pp) == Cardinality({i \in 1..Len(pp) : pp[i].kind = "src"})

FillerCount(pp) == Cardinality({i \in 1..Len(pp) : IsFiller(pp[i])})

SessionIds == DOMAIN sessions.val

HasSum(s) == SUM \in DOMAIN sessions.val[s]

HasProb(s) == PROB \in DOMAIN sessions.val[s]

\* page p was copied from a document of session s
PageFrom(p, s) ==
    /\ p.kind = "src"
    /\ \E k \in DOMAIN sessions.val[s] : sessions.val[s][k] = p.of

\* the positions of the output that hold pages of session s: the pages
\* copied from its documents, and a filler page that follows one of them
PositionsOf(s) ==
    {i \in 1..Len(Pages) :
        \/ PageFrom(Pages[i], s)
        \/ IsFiller(Pages[i]) /\ i > 1 /\ PageFrom(Pages[i - 1], s)}

RECURSIVE Pow10(_)
Pow10(k) == IF k = 0 THEN 1 ELSE 10 * Pow10(k - 1)

RECURSIVE DecimalValue(_)
\* the number a digit string denotes, most significant digit first
DecimalValue(d) ==
    IF d = <<>> THEN 0
    ELSE DigitVal(Head(d)) * Pow10(Len(d) - 1) + DecimalValue(Tail(d))

DotAt(s) == CHOOSE i \in 1..Len(s) : s[i] = "."

Major(s) == DecimalValue(SubSeq(s, 1, DotAt(s) - 1))

Minor(s) == DecimalValue(SubSeq(s, DotAt(s) + 1, Len(s)))

\* the session ids the directory entries above can give
KnownIds == {<<"1", ".", "2">>, <<"1", ".", "9">>, <<"1", ".", "1", "0">>}

\* each of them as its pair of integers
IntPair == [s \in KnownIds |-> <<Major(s), Minor(s)>>]

\* one pair of integers before another: first component, then second
PairLess(x, y) == x[1] < y[1] \/ (x[1] = y[1] /\ x[2] < y[2])

\* session id a is numerically smaller than b, as a pair of integers
NumLess(a, b) == PairLess(IntPair[a], IntPair[b])

\* the whole name is Ses<digits>.<digits><kind>.pdf, case ignored on letters
ExactForm(name) ==
    \E i \in 5..Len(name), j \in 6..Len(name) :
        /\ i + 1 < j
        /\ LowerStr(SubSeq(name, 1, 3)) = <<"s", "e", "s">>
        /\ \A k \in 4..(i - 1) : name[k] \in Digits
        /\ name[i] = "."
        /\ \A k \in (i + 1)..(j - 1) : name[k] \in Digits
        /\ LowerStr(SubSeq(name, j, Len(name)))
             \in { SUM \o <<".", "p", "d", "f">>, PROB \o <<".", "p", "d", "f">> }

\* --------------------------------------------------------------------- C1
\* C1: a session with no summary path contributes no page at all, neither a
\* page of its problem document nor a filler page, and the loop goes on to
\* the next session without entering the problem or padding steps.
C1_NoSummaryNoPages ==
    /\ pc \in {"prob", "pad"} => HasSum(ses)
    /\ IterationEnd /\ ~HasSum(ses) => Len(Pages) = start_page_count
    /\ \A s \in SessionIds : ~HasSum(s) =>
          \A i \in 1..Len(Pages) : ~PageFrom(Pages[i], s)

\* a session that has only a problem document was skipped after an earlier
\* session had put pages into the output
C1_Witness ==
    /\ IterationEnd
    /\ ~HasSum(ses)
    /\ HasProb(ses)
    /\ Len(Pages) > 0

\* --------------------------------------------------------------------- C2
\* C2: when the loop leaves an included session, k source pages of it are in
\* the output; k odd: exactly one filler page, the last page of the session;
\* k even: no filler page; the session's page count is even either way.
C2_EvenPerSession ==
    IterationEnd /\ HasSum(ses) =>
        LET k == SrcCount(Seg) IN
        /\ k % 2 = 1 => /\ FillerCount(Seg) = 1
                        /\ IsFiller(Seg[Len(Seg)])
                        /\ Len(Seg) = k + 1
        /\ k % 2 = 0 => FillerCount(Seg) = 0
        /\ Len(Seg) % 2 = 0

\* a session with an odd number of source pages got its filler page, after
\* an earlier session
C2_Witness ==
    /\ IterationEnd
    /\ HasSum(ses)
    /\ HasProb(ses)
    /\ SrcCount(Seg) = 3
    /\ Len(Seg) = 4
    /\ start_page_count > 0

\* --------------------------------------------------------------------- C3
\* C3: sessions are walked in ascending order of their ids read as pairs of
\* integers: the sessions still to come are not smaller than the current
\* one, and every page of a numerically smaller session precedes every page
\* of a larger one in the output.
C3_NumericOrder ==
    /\ \A i \in 1..Len(todo) :
          /\ ses # None => ~NumLess(todo[i], ses)
          /\ \A j \in 1..Len(todo) : i < j => ~NumLess(todo[j], todo[i])
    /\ \A a \in SessionIds, b \in SessionIds :
          NumLess(a, b) =>
              \A i \in PositionsOf(a), j \in PositionsOf(b) : i < j

\* pages of session 1.10 in the output, after pages of session 1.2 or 1.9
C3_Witness ==
    \E a \in SessionIds, b \in SessionIds :
        /\ a \in {<<"1", ".", "2">>, <<"1", ".", "9">>}
        /\ b = <<"1", ".", "1", "0">>
        /\ PositionsOf(a) # {}
        /\ PositionsOf(b) # {}

\* --------------------------------------------------------------------- C4
\* C4: when the loop leaves an included session whose summary has n pages
\* and whose problem document, if any, has m pages, the session's pages are
\* summary pages 0..n-2 in order, then problem pages 0..m-2 in order, then
\* nothing but padding; no last page of a document is ever in the output.
C4_AllButLast ==
    /\ IterationEnd /\ HasSum(ses) =>
          LET n == opened[pair[SUM]].n
              a == Max0(n - 1)
              b == IF HasProb(ses) THEN Max0(opened[pair[PROB]].n - 1) ELSE 0
          IN  /\ Len(Seg) = a + b + ((a + b) % 2)
              /\ \A i \in 1..a : IsSrc(Seg[i], pair[SUM], i - 1)
              /\ \A i \in 1..b : IsSrc(Seg[a + i], pair[PROB], i - 1)
              /\ \A i \in (a + b + 1)..Len(Seg) : IsFiller(Seg[i])
    /\ \A i \in 1..Len(Pages) :
          Pages[i].kind = "src" => Pages[i].idx < opened[Pages[i].of].n - 1

\* a 3-page summary gave 2 pages and a 2-page problem document 1 page, and a
\* filler page made it 4
C4_Witness ==
    /\ IterationEnd
    /\ HasSum(ses)
    /\ HasProb(ses)
    /\ opened[pair[SUM]].n = 3
    /\ opened[pair[PROB]].n = 2
    /\ Len(Seg) = 4
    /\ IsFiller(Seg[4])

\* --------------------------------------------------------------------- C5
\* C5 as stated: a session with a summary and no problem file has its
\* summary pages minus the last in the output and nothing else.
C5_OnlySummaryPages ==
    IterationEnd /\ HasSum(ses) /\ ~HasProb(ses) =>
        LET a == Max0(opened[pair[SUM]].n - 1)
        IN  /\ Len(Seg) = a
            /\ \A i \in 1..a : IsSrc(Seg[i], pair[SUM], i - 1)

\* C5 as amended: a session with a summary of n pages and no problem file has
\* its summary pages minus the last in the output, followed by exactly one
\* filler page when n - 1 is odd and by nothing when n - 1 is even; no page
\* of any other document is among them.
C5_SummaryPagesAndPadding ==
    IterationEnd /\ HasSum(ses) /\ ~HasProb(ses) =>
        LET a == Max0(opened[pair[SUM]].n - 1)
        IN  /\ \A i \in 1..a : IsSrc(Seg[i], pair[SUM], i - 1)
            /\ Len(Seg) \in {a, a + 1}
            /\ Len(Seg) = a + 1 <=> a % 2 = 1
            /\ Len(Seg) = a + 1 => IsFiller(Seg[a + 1])

\* a summary of 2 pages without a problem file: one page and one filler page
C5_Witness ==
    /\ IterationEnd
    /\ HasSum(ses)
    /\ ~HasProb(ses)
    /\ opened[pair[SUM]].n = 2
    /\ Len(Seg) = 2
    /\ IsFiller(Seg[2])

\* --------------------------------------------------------------------- C6
PastCheck == pc \in {"exit", "loop", "sum", "prob", "pad", "crashed", "done"}

\* some entry of an existing input folder is taken by the pattern matcher
SomeEntryMatches ==
    \E d \in Folders : \E name \in dirs[d].names :
        dirs[d].isdir /\ PatternMatch(name) # None

\* a step of the script other than a PdfReader call raising
StepWithoutReadError ==
    \/ EnterCollect \/ ScanFile \/ EndScan \/ ReturnCollect \/ Combine
    \/ ExitEmpty \/ StartMerge \/ LoopHead \/ IncludeSum \/ SkipSession
    \/ IncludeProb \/ ProbMissing \/ Pad \/ WriteOutput

\* C6: the script exits with status 1 at the empty-mapping check, with no
\* output collection and no merged.pdf, exactly when the combined mapping is
\* empty, which is when no entry of an existing folder matches; otherwise it
\* goes on, can always take a next step that is no read error until
\* merged.pdf is written, and then ends with status 0.
C6_ExitIffEmpty ==
    /\ pc = "exit" => /\ sessions.keys = <<>>
                      /\ status = Some(1)
                      /\ out = None
                      /\ merged = None
    /\ PastCheck => (pc = "exit" <=> sessions.keys = <<>>)
    /\ PastCheck => (sessions.keys = <<>> <=> ~SomeEntryMatches)
    /\ pc \notin {"exit", "crashed", "done"} => ENABLED StepWithoutReadError
    /\ pc = "done" => status = Some(0) /\ merged = out /\ merged # None
    /\ status = Some(0) => pc = "done"

\* lecturenotes/ holds nothing and problemsets/ does: one session was skipped
\* for want of a summary, another was merged, and merged.pdf was written
C6_Witness ==
    /\ dirs["lecturenotes"].names = {}
    /\ dirs["problemsets"].names # {}
    /\ pc = "done"
    /\ status = Some(0)
    /\ Len(merged[1]) > 0
    /\ \E s \in SessionIds : ~HasSum(s)

\* --------------------------------------------------------------------- C7
\* C7: every step keeps the pages already in the output collection in place;
\* merged.pdf is written at most once, by the step taken when no session is
\* left to walk; a step that ends in a read error leaves merged.pdf
\* unwritten, and no step follows it.
C7_AppendOnlyWriteOnce ==
    [][ /\ out # None =>
            /\ out' # None
            /\ Len(out'[1]) >= Len(out[1])
            /\ SubSeq(out'[1], 1, Len(out[1])) = out[1]
        /\ merged' # merged =>
            /\ merged = None
            /\ pc = "loop"
            /\ todo = <<>>
            /\ merged' = out
        /\ pc' = "crashed" => merged' = None
        /\ pc # "crashed"
      ]_vars

\* a read error in a later session, after an earlier session was merged
C7_Witness ==
    /\ pc = "crashed"
    /\ start_page_count > 0
    /\ Len(Pages) > start_page_count
    /\ merged = None

\* --------------------------------------------------------------------- C8
\* C8: an entry is taken by the pattern matcher exactly when its whole name
\* has the form Ses<digits>.<digits><kind>.pdf, and then the session id and
\* the kind in lower case are what the name holds; an entry with characters
\* before the form or after the final .pdf is not taken and adds nothing to
\* the mapping.
C8_WholeNameMatches ==
    f # None =>
        /\ m # None <=> ExactForm(f)
        /\ m # None =>
              /\ LowerStr(m[1].kind) \in {SUM, PROB}
              /\ LowerStr(f) =
                   <<"s", "e", "s">> \o m[1].sesnum \o LowerStr(m[1].kind)
                     \o <<".", "p", "d", "f">>
        /\ ~ExactForm(f) =>
              \A s \in DOMAIN mapping.val : \A k \in DOMAIN mapping.val[s] :
                  mapping.val[s][k] # JoinPath(folder, f)

\* --------------------------------------------------------------------- C9
\* the first page's size of the document PdfReader gave for a path
FirstPageSize(path) == opened[path].box[1]

\* C9: the reference size is unset when a session begins; the padding step
\* never finds an odd page count with the reference size unset, so A4 is
\* never substituted; a filler page has the size of the summary's first page
\* when the summary has a page, else of the problem document's first page.
C9_FillerSize ==
    /\ pc = "sum" => page_width = None /\ page_height = None
    /\ pc = "pad" /\ pages_added % 2 # 0 =>
          page_width # None /\ page_height # None
    /\ IterationEnd /\ HasSum(ses) /\ Len(Seg) > 0 /\ IsFiller(Seg[Len(Seg)]) =>
          Seg[Len(Seg)].of =
              IF opened[pair[SUM]].n >= 1
              THEN FirstPageSize(pair[SUM])
              ELSE FirstPageSize(pair[PROB])

\* after an earlier session of another page size, a session whose summary
\* has no page got a filler page of the size of its problem document
C9_Witness ==
    /\ IterationEnd
    /\ HasSum(ses)
    /\ start_page_count > 0
    /\ Pages[1].kind = "src"
    /\ Len(Seg) > 0
    /\ IsFiller(Seg[Len(Seg)])
    /\ opened[pair[SUM]].n = 0
    /\ Seg[Len(Seg)].of = FirstPageSize(pair[PROB])
    /\ Seg[Len(Seg)].of # FirstPageSize(Pages[1].of)

\* -------------------------------------------------------------------- C10
\* C10: the output holds an even number of pages whenever the loop is
\* between two iterations, a skipped session included, so every session
\* starts at an even offset, and merged.pdf holds an even number of pages.
C10_EvenTotal ==
    /\ pc = "loop" => Len(Pages) % 2 = 0
    /\ pc \in {"sum", "prob", "pad"} => start_page_count % 2 = 0
    /\ merged # None => Len(merged[1]) % 2 = 0

\* merged.pdf was written with a filler page in it and a later session
\* starting right after that filler page
C10_Witness ==
    /\ pc = "done"
    /\ \E i \in 2..(Len(merged[1]) - 1) :
          /\ IsFiller(merged[1][i])
          /\ merged[1][i + 1].kind = "src"
          /\ i % 2 = 0

====
